---------------------------- MODULE Spec2Model ----------------------------
(***************************************************************************)
(* Session & event cache engine of CX-O.                                   *)
(*                                                                         *)
(*   ContextManager       (src/core/context.py)        one JSON document   *)
(*                        per session plus an in-memory LRU cache          *)
(*   DanmakuCacheManager  (src/core/danmaku_cache.py)  two append-only     *)
(*                        JSONL logs, raw and audited                      *)
(*                                                                         *)
(* Python values are modelled structurally: a dict is a function whose     *)
(* DOMAIN is its key set, a list is a sequence, a file is its decoded      *)
(* content.  Wall-clock time is the integer variable now.                  *)
(***************************************************************************)
EXTENDS Integers, Sequences, FiniteSets, TLC

(***************************************************************************)
(* Constructor parameters (scaled down) and bounds of the exploration.     *)
(***************************************************************************)
max_messages == 2
cache_ttl == 1
max_cache_size == 2
retention_days == 1
HardMaxCount == 100
ByIdCount == 1000
DefaultCount == 10

MaxNow == 2
MaxLog == 2
MaxScan == 3

Sessions == {"s1", "s2", "s3"}
Threads == {"t1", "t2"}
Msgs == {"user:hi", "assistant:hello", "user:bye"}

VARIABLES
    sessions_dir,   \* session id -> content of sessions/<id>.json
    memory_cache,   \* self._memory_cache: dict session id -> {"data", "timestamp"}
    cache_order,    \* self._cache_order: list of session ids
    raw_file,       \* lines of raw_danmaku.jsonl
    audited_file,   \* lines of audited_danmaku.jsonl
    now,            \* datetime.now()
    op,             \* the call that was made last, with its arguments
    ret,            \* what the last call returned
    chain,          \* the calls made in a row about one danmaku record
    first_created,  \* per session: created_at of its first write since it was last cleared
    run,            \* messages appended by the unbroken run of append_message calls ending at op
    pc,             \* per thread: position inside append_message
    local,          \* per thread: the local variables of the call it is making
    _lock           \* self._lock of the DanmakuCacheManager: free, or the thread holding it

vars == <<sessions_dir, memory_cache, cache_order, raw_file, audited_file,
          now, op, ret, chain, first_created, run, pc, local, _lock>>

ctxVars == <<sessions_dir, memory_cache, cache_order, first_created>>
logVars == <<raw_file, audited_file, chain, _lock>>
thrVars == <<pc, local>>

(***************************************************************************)
(* Python helpers.                                                         *)
(***************************************************************************)
Range(s) == {s[i] : i \in 1..Len(s)}

Min(a, b) == IF a < b THEN a ELSE b

\* dict.get(key, default)
DictGet(d, key, default) == IF key \in DOMAIN d THEN d[key] ELSE default

\* lst[-n:] ; for n = 0 Python's lst[-0:] is lst[0:], the whole list
LastN(lst, n) ==
    IF n = 0 \/ n >= Len(lst) THEN lst
    ELSE SubSeq(lst, Len(lst) - n + 1, Len(lst))

\* lst[::-1] and reversed(lst)
Reverse(lst) == [i \in 1..Len(lst) |-> lst[Len(lst) + 1 - i]]

\* list.remove(x): drops the first occurrence
RemoveFirst(lst, x) ==
    IF x \notin Range(lst) THEN lst
    ELSE LET i == CHOOSE k \in 1..Len(lst) : lst[k] = x /\ \A j \in 1..(k-1) : lst[j] # x
         IN  SubSeq(lst, 1, i - 1) \o SubSeq(lst, i + 1, Len(lst))

\* dict.pop(key, None)
DictPop(d, key) == [k \in DOMAIN d \ {key} |-> d[k]]

\* d[key] = value
DictSet(d, key, value) == [k \in DOMAIN d \cup {key} |-> IF k = key THEN value ELSE d[k]]

EmptyDict == [k \in {} |-> k]

(***************************************************************************)
(* Session documents.  A file is absent, unparseable, or a JSON document.  *)
(***************************************************************************)
NoFile == [kind |-> "absent"]
CorruptFile == [kind |-> "corrupt"]

IsDoc(f) == f.kind = "doc"

\* the dict save_context builds (session_id is the key of sessions_dir,
\* memory_references is always [])
Context(created, active, messages, mono, metadata) ==
    [kind |-> "doc", created_at |-> created, last_active |-> active,
     messages |-> messages, mono_context |-> mono, metadata |-> metadata]

\* MonoContextItem.expires_at: an ISO string of a naive time, of a time with
\* a UTC offset, or a string datetime.fromisoformat rejects
Naive(t) == [kind |-> "naive", t |-> t]
Aware(t) == [kind |-> "aware", t |-> t]
BadTime == [kind |-> "bad", t |-> 0]

MonoItem(content, expires_at, rounds) ==
    [content |-> content, expires_at |-> expires_at, rounds |-> rounds]

(***************************************************************************)
(* The memory cache.                                                       *)
(***************************************************************************)
RECURSIVE Evict(_, _)
Evict(cache, order) ==
    IF Cardinality(DOMAIN cache) > max_cache_size /\ order # <<>>
    THEN Evict(DictPop(cache, Head(order)), Tail(order))
    ELSE [cache |-> cache, order |-> order]

\* _update_cache appending the key without taking its old place out of the
\* recency list
_update_cache_appending(cache, order, session_id, context, t) ==
    Evict(DictSet(cache, session_id, [data |-> context, timestamp |-> t]),
          Append(order, session_id))

_update_cache(cache, order, session_id, context, t) ==
    Evict(DictSet(cache, session_id, [data |-> context, timestamp |-> t]),
          Append(RemoveFirst(order, session_id), session_id))

_is_cache_valid(cached, t) == (t - cached.timestamp) < cache_ttl

\* load_context as a function of the store: the list it returns, the cache
\* it leaves, and whether the returned list is the very list object held in
\* the cache entry (context["messages"] of the dict handed to _update_cache)
LoadContext(files, cache, order, session_id, t) ==
    IF session_id \in DOMAIN cache /\ _is_cache_valid(cache[session_id], t)
    THEN [messages |-> DictGet(cache[session_id], "messages", <<>>),
          cache |-> cache, order |-> order, shared |-> FALSE]
    ELSE IF ~IsDoc(files[session_id])
    THEN [messages |-> <<>>, cache |-> cache, order |-> order, shared |-> FALSE]
    ELSE LET c == _update_cache(cache, order, session_id, files[session_id], t)
         IN  [messages |-> files[session_id].messages,
              cache |-> c.cache, order |-> c.order,
              shared |-> session_id \in DOMAIN c.cache]

_get_or_create_created_at(files, session_id, t) ==
    IF IsDoc(files[session_id]) THEN files[session_id].created_at ELSE t

\* _load_mono_context falling back, on a document it cannot read, to the
\* snapshot held in the memory cache
_load_mono_context_cached(files, session_id) ==
    IF IsDoc(files[session_id]) THEN files[session_id].mono_context
    ELSE IF session_id \in DOMAIN memory_cache
    THEN memory_cache[session_id].data.mono_context
    ELSE <<>>

_load_mono_context(files, session_id) ==
    IF IsDoc(files[session_id]) THEN files[session_id].mono_context ELSE <<>>


\* save_context as a function of the store.  write is the outcome of the
\* with-open/json.dump block: "ok"; "open" (open() raises, the file is as it
\* was); "dump" (open() has truncated the file and json.dump or the flush
\* raises, the file is left unparseable)
SaveContext(files, cache, order, session_id, messages, metadata, mono, write, t) ==
    LET context == Context(_get_or_create_created_at(files, session_id, t), t,
                           messages, mono, metadata)
    IN  IF write = "ok"
        THEN LET c == _update_cache(cache, order, session_id, context, t)
             IN  [files |-> [files EXCEPT ![session_id] = context],
                  cache |-> c.cache, order |-> c.order, ok |-> TRUE]
        ELSE [files |-> IF write = "dump"
                        THEN [files EXCEPT ![session_id] = CorruptFile]
                        ELSE files,
              cache |-> cache, order |-> order, ok |-> FALSE]

WriteOutcomes == {"ok", "open", "dump"}

\* the expiry test with the boundary on the wrong side (expires_at >= now)
MonoValid_inclusive(item, t) == item.expires_at.kind = "naive" /\ item.expires_at.t >= t

\* item kept by get_mono_context / clear_expired_mono: fromisoformat parses
\* and expires_at > now compares (a naive/aware comparison raises TypeError,
\* which the bare except swallows like a parse failure)
MonoValid(item, t) == item.expires_at.kind = "naive" /\ item.expires_at.t > t

SelectValidMono(mono, t) == SelectSeq(mono, LAMBDA item : MonoValid(item, t))

Contents(mono) == [i \in 1..Len(mono) |-> mono[i].content]

(***************************************************************************)
(* Danmaku records.  A DanmakuMessage and the dict to_dict makes of it are *)
(* functions on the field names; room_id, username, uid, badge_level and   *)
(* badge_name are carried exactly like content and stand behind it.  A     *)
(* line of a log is the JSON text of such a dict, a text json.loads        *)
(* rejects, or a blank line.  timestamp is a time value as expires_at is.  *)
(***************************************************************************)
DanmakuMessage(id, platform, content, timestamp, raw, audit_status, audit_result) ==
    [id |-> id, platform |-> platform, content |-> content, timestamp |-> timestamp,
     raw |-> raw, audit_status |-> audit_status, audit_result |-> audit_result]

\* json.dumps(danmaku.to_dict()) + '\n'
to_dict(d) ==
    [id |-> d.id, platform |-> d.platform, content |-> d.content,
     timestamp |-> d.timestamp, raw |-> d.raw,
     audit_status |-> d.audit_status, audit_result |-> d.audit_result]

Line(data) == [kind |-> "record", data |-> data]
MalformedLine == [kind |-> "malformed"]
BlankLine == [kind |-> "blank"]

\* DanmakuMessage.from_dict: every field by data.get(key, default)
from_dict(data) ==
    DanmakuMessage(DictGet(data, "id", "danmaku_generated"),
                   DictGet(data, "platform", "live"),
                   DictGet(data, "content", ""),
                   DictGet(data, "timestamp", BadTime),
                   DictGet(data, "raw", TRUE),
                   DictGet(data, "audit_status", "pending"),
                   DictGet(data, "audit_result", EmptyDict))

NoPlatform == "None"
NoSince == [kind |-> "None", t |-> 0]
NoneValue == [none |-> TRUE]

\* danmaku_time < since_time inside try/except: a failure to parse either
\* side, or a naive/aware comparison, raises and the record is kept
BeforeSince(timestamp, since) ==
    /\ timestamp.kind = "naive" /\ since.kind = "naive"
    /\ timestamp.t < since.t

\* the loop of get_recent_danmaku over reversed(lines[-count*2:]), written
\* without recursion.  A line is taken when it is a record that passes the
\* platform and the since filter; the loop leaves at the line that makes the
\* list count long (the test follows the append, so at the first line taken
\* when count is 0); a line json.loads rejects, met before the loop has
\* left, raises into the outer except.
Taken(line, platform, since) ==
    /\ line.kind = "record"
    /\ LET danmaku == from_dict(line.data)
       IN  /\ ~(platform # NoPlatform /\ danmaku.platform # platform)
           /\ ~(since # NoSince /\ BeforeSince(danmaku.timestamp, since))

ScanLines(rev, count, platform, since, danmaku_list) ==
    LET taken == {i \in 1..Len(rev) : Taken(rev[i], platform, since)}
        need == (IF count > Len(danmaku_list) THEN count - Len(danmaku_list) ELSE 1)
        last == IF Cardinality(taken) >= need
                THEN CHOOSE i \in taken : Cardinality({j \in taken : j <= i}) = need
                ELSE Len(rev)
        read == SubSeq(rev, 1, last)
        kept == SelectSeq(read, LAMBDA line : Taken(line, platform, since))
    IN  IF \E i \in 1..last : rev[i].kind = "malformed"
        THEN [raised |-> TRUE, list |-> danmaku_list]
        ELSE [raised |-> FALSE,
              list |-> danmaku_list \o [i \in 1..Len(kept) |-> from_dict(kept[i].data)]]

\* get_recent_danmaku on the lines of the selected file (a missing file
\* reads as no lines)
GetRecentDanmaku(lines, count, platform, since) ==
    LET c == Min(count, HardMaxCount)
        scan == ScanLines(Reverse(LastN(lines, c * 2)), c, platform, since, <<>>)
    IN  IF scan.raised THEN <<>> ELSE Reverse(scan.list)

\* first element of a list with the id, or None
FirstWithId(danmaku_list, danmaku_id) ==
    IF \E i \in 1..Len(danmaku_list) : danmaku_list[i].id = danmaku_id
    THEN danmaku_list[CHOOSE i \in 1..Len(danmaku_list) :
                        /\ danmaku_list[i].id = danmaku_id
                        /\ \A j \in 1..(i-1) : danmaku_list[j].id # danmaku_id]
    ELSE NoneValue

GetDanmakuById(rawLines, auditedLines, danmaku_id, only_raw) ==
    LET inRaw == FirstWithId(GetRecentDanmaku(rawLines, ByIdCount, NoPlatform, NoSince),
                             danmaku_id)
    IN  IF inRaw # NoneValue THEN inRaw
        ELSE IF ~only_raw
        THEN FirstWithId(GetRecentDanmaku(auditedLines, ByIdCount, NoPlatform, NoSince),
                         danmaku_id)
        ELSE NoneValue

\* add_raw_danmaku writing the record with the status it came with
AsRaw_keeping(d) == [d EXCEPT !.raw = TRUE]

\* the fields add_raw_danmaku forces before writing
AsRaw(d) == [d EXCEPT !.raw = TRUE, !.audit_status = "pending", !.audit_result = EmptyDict]

\* add_audited_danmaku approving a record whose outcome carries no verdict
AsAudited_approving(d, audit_result) ==
    [d EXCEPT !.raw = FALSE,
              !.audit_status = IF DictGet(audit_result, "allowed", TRUE)
                               THEN "approved" ELSE "rejected",
              !.audit_result = audit_result]

\* the fields add_audited_danmaku sets before writing; audit_result.get("allowed")
\* is None, hence falsy, when the key is missing
AsAudited(d, audit_result) ==
    [d EXCEPT !.raw = FALSE,
              !.audit_status = IF DictGet(audit_result, "allowed", FALSE)
                               THEN "approved" ELSE "rejected",
              !.audit_result = audit_result]

\* an append that puts the new line in front of the file
AppendLine_front(lines, d, write) ==
    IF write = "ok" THEN <<Line(to_dict(d))>> \o lines ELSE lines

\* the append inside try/except: a failure writes nothing and is only logged
AppendLine(lines, d, write) ==
    IF write = "ok" THEN Append(lines, Line(to_dict(d))) ELSE lines

\* days = days or self.retention_days
EffectiveDays(days) == IF days = 0 THEN retention_days ELSE days

\* line kept by _cleanup_file: fromisoformat(timestamp) > cutoff_time, or
\* the parse or the comparison raises
KeepLine(line, cutoff_time) ==
    LET timestamp == DictGet(line.data, "timestamp", BadTime)
    IN  timestamp.kind = "naive" => timestamp.t > cutoff_time

\* _cleanup_file: json.loads of a malformed line raises before the rewrite
CleanupFile(lines, cutoff_time) ==
    IF \E i \in 1..Len(lines) : lines[i].kind = "malformed"
    THEN [raised |-> TRUE, lines |-> lines]
    ELSE [raised |-> FALSE,
          lines |-> SelectSeq(lines, LAMBDA line :
                        line.kind = "record" /\ KeepLine(line, cutoff_time))]

(***************************************************************************)
(* Bookkeeping of the calls made, for stating the claims.                  *)
(***************************************************************************)
Call(name, key, arg, ok) == [name |-> name, key |-> key, arg |-> arg, ok |-> ok]

NoCall == Call("none", "none", <<>>, TRUE)

NoRun == [msgs |-> <<>>, fresh |-> FALSE]

NoChain == [stage |-> "none"]

\* how a call of the log store ended: it returned to its caller, or an
\* exception left it
Returned == [raised |-> FALSE]
Raised == [raised |-> TRUE]

\* first_created after a call that leaves the session files as given: the
\* created_at of the first document written since the file last was absent
Born(created, files) ==
    [s \in Sessions |->
        IF files[s] = NoFile THEN {}
        ELSE IF created[s] = {} /\ IsDoc(files[s]) THEN {files[s].created_at}
        ELSE created[s]]

\* op is a completed append_message on session_id
AfterAppend(session_id) == op.name = "append_message" /\ op.key = session_id /\ op.ok

RunWindow == max_messages + 1

\* the run of appends carried across a read that directly follows it
RunAtRead(session_id) == IF AfterAppend(session_id) THEN run ELSE NoRun

(***************************************************************************)
(* ContextManager, one call at a time.                                     *)
(***************************************************************************)
save_context(session_id, messages, metadata, mono, write) ==
    LET sv == SaveContext(sessions_dir, memory_cache, cache_order, session_id,
                          messages, metadata, mono, write, now)
    IN  /\ sessions_dir' = sv.files
        /\ first_created' = Born(first_created, sv.files)
        /\ memory_cache' = sv.cache
        /\ cache_order' = sv.order
        /\ op' = Call("save_context", session_id, <<>>, sv.ok)
        /\ ret' = <<>>
        /\ run' = NoRun
        /\ UNCHANGED <<logVars, thrVars, now>>

\* load_context creating the session on a missing document: an empty
\* context is put in the cache
load_context_creating(session_id) ==
    LET ld == LoadContext(sessions_dir, memory_cache, cache_order, session_id, now)
        c == IF sessions_dir[session_id] = NoFile
             THEN _update_cache(ld.cache, ld.order, session_id,
                                Context(now, now, <<>>, <<>>, {}), now)
             ELSE [cache |-> ld.cache, order |-> ld.order]
    IN  /\ memory_cache' = c.cache
        /\ cache_order' = c.order
        /\ op' = Call("load_context", session_id, <<>>, TRUE)
        /\ ret' = ld.messages
        /\ run' = RunAtRead(session_id)
        /\ UNCHANGED <<sessions_dir, first_created, logVars, thrVars, now>>

load_context(session_id) ==
    LET ld == LoadContext(sessions_dir, memory_cache, cache_order, session_id, now)
    IN  /\ memory_cache' = ld.cache
        /\ cache_order' = ld.order
        /\ op' = Call("load_context", session_id, <<>>, TRUE)
        /\ ret' = ld.messages
        /\ run' = RunAtRead(session_id)
        /\ UNCHANGED <<sessions_dir, first_created, logVars, thrVars, now>>

append_message(session_id, message, write) ==
    LET ld == LoadContext(sessions_dir, memory_cache, cache_order, session_id, now)
        appended == Append(ld.messages, message)
        \* messages.append(message) acts on the list the cache entry holds
        cache1 == IF ld.shared
                  THEN [ld.cache EXCEPT ![session_id].data.messages = appended]
                  ELSE ld.cache
        messages == IF Len(appended) > max_messages
                    THEN LastN(appended, max_messages)
                    ELSE appended
        sv == SaveContext(sessions_dir, cache1, ld.order, session_id,
                          messages, {}, <<>>, write, now)
    IN  /\ sessions_dir' = sv.files
        /\ first_created' = Born(first_created, sv.files)
        /\ memory_cache' = sv.cache
        /\ cache_order' = sv.order
        /\ op' = Call("append_message", session_id, <<>>, sv.ok)
        /\ ret' = <<>>
        /\ run' = IF ~sv.ok THEN NoRun
                  ELSE IF AfterAppend(session_id)
                  THEN [run EXCEPT !.msgs = LastN(Append(run.msgs, message), RunWindow)]
                  ELSE [msgs |-> <<message>>,
                        fresh |-> /\ sessions_dir[session_id] = NoFile
                                  /\ session_id \notin DOMAIN memory_cache]
        /\ UNCHANGED <<logVars, thrVars, now>>

get_recent_messages(session_id, count) ==
    LET ld == LoadContext(sessions_dir, memory_cache, cache_order, session_id, now)
    IN  /\ memory_cache' = ld.cache
        /\ cache_order' = ld.order
        /\ op' = Call("get_recent_messages", session_id, <<count>>, TRUE)
        /\ ret' = LastN(ld.messages, count)
        /\ run' = RunAtRead(session_id)
        /\ UNCHANGED <<sessions_dir, first_created, logVars, thrVars, now>>

clear_context(session_id) ==
    /\ IF sessions_dir[session_id] # NoFile
       THEN /\ sessions_dir' = [sessions_dir EXCEPT ![session_id] = NoFile]
            /\ first_created' = [first_created EXCEPT ![session_id] = {}]
            /\ memory_cache' = DictPop(memory_cache, session_id)
            /\ cache_order' = RemoveFirst(cache_order, session_id)
       ELSE UNCHANGED ctxVars
    /\ op' = Call("clear_context", session_id, <<>>, TRUE)
    /\ ret' = <<>>
    /\ run' = NoRun
    /\ UNCHANGED <<logVars, thrVars, now>>

\* timedelta(rounds=rounds) raises TypeError (timedelta has no such keyword)
\* after the two loads, so nothing is appended and save_context is not reached
add_mono_context(session_id, content, rounds) ==
    LET ld == LoadContext(sessions_dir, memory_cache, cache_order, session_id, now)
    IN  /\ memory_cache' = ld.cache
        /\ cache_order' = ld.order
        /\ op' = Call("add_mono_context", session_id, <<>>, FALSE)
        /\ ret' = <<>>
        /\ run' = NoRun
        /\ UNCHANGED <<sessions_dir, first_created, logVars, thrVars, now>>

get_mono_context(session_id) ==
    /\ op' = Call("get_mono_context", session_id, <<now>>, TRUE)
    /\ ret' = Contents(SelectValidMono(_load_mono_context(sessions_dir, session_id), now))
    /\ run' = NoRun
    /\ UNCHANGED <<ctxVars, logVars, thrVars, now>>

\* clear_expired_mono re-saving whatever the filter found
clear_expired_mono_always(session_id, write) ==
    LET ld == LoadContext(sessions_dir, memory_cache, cache_order, session_id, now)
        mono_context == _load_mono_context(sessions_dir, session_id)
        valid_context == SelectValidMono(mono_context, now)
        sv == SaveContext(sessions_dir, ld.cache, ld.order, session_id,
                          ld.messages, {}, valid_context, write, now)
    IN  /\ sessions_dir' = sv.files
        /\ first_created' = Born(first_created, sv.files)
        /\ memory_cache' = sv.cache
        /\ cache_order' = sv.order
        /\ op' = Call("clear_expired_mono", session_id,
                      [stored |-> mono_context, saved |-> TRUE], sv.ok)
        /\ ret' = <<>>
        /\ run' = NoRun
        /\ UNCHANGED <<logVars, thrVars, now>>

clear_expired_mono(session_id, write) ==
    LET ld == LoadContext(sessions_dir, memory_cache, cache_order, session_id, now)
        mono_context == _load_mono_context(sessions_dir, session_id)
        valid_context == SelectValidMono(mono_context, now)
        resave == Len(valid_context) # Len(mono_context)
        sv == IF resave
              THEN SaveContext(sessions_dir, ld.cache, ld.order, session_id,
                               ld.messages, {}, valid_context, write, now)
              ELSE [files |-> sessions_dir, cache |-> ld.cache,
                    order |-> ld.order, ok |-> TRUE]
    IN  /\ (~resave => write = "ok")
        /\ sessions_dir' = sv.files
        /\ first_created' = Born(first_created, sv.files)
        /\ memory_cache' = sv.cache
        /\ cache_order' = sv.order
        /\ op' = Call("clear_expired_mono", session_id,
                      [stored |-> mono_context, saved |-> resave], sv.ok)
        /\ ret' = <<>>
        /\ run' = NoRun
        /\ UNCHANGED <<logVars, thrVars, now>>

Tick ==
    /\ now < MaxNow
    /\ now' = now + 1
    /\ UNCHANGED <<ctxVars, logVars, thrVars, op, ret, run>>

(***************************************************************************)
(* Initial state: a store constructed on empty directories.                *)
(***************************************************************************)
NoLocal == [session_id |-> "none", message |-> "none", messages |-> <<>>,
            shared |-> FALSE, created_at |-> 0, last_active |-> 0]

Init ==
    /\ sessions_dir = [s \in Sessions |-> NoFile]
    /\ memory_cache = EmptyDict
    /\ cache_order = <<>>
    /\ first_created = [s \in Sessions |-> {}]
    /\ raw_file = <<>>
    /\ audited_file = <<>>
    /\ now = 0
    /\ op = NoCall
    /\ ret = <<>>
    /\ chain = NoChain
    /\ _lock = "free"
    /\ run = NoRun
    /\ pc = [t \in Threads |-> "idle"]
    /\ local = [t \in Threads |-> NoLocal]

(***************************************************************************)
(* SpecCtx: the message history of one session.                            *)
(***************************************************************************)
CtxSessions == {"s1"}
SaveMsgs == {<<>>, <<"user:hi">>, <<"user:hi", "assistant:hello", "user:bye">>}
Counts == 0..RunWindow

NextCtx ==
    \/ \E s \in CtxSessions, m \in SaveMsgs, w \in WriteOutcomes :
          save_context(s, m, {}, <<>>, w)
    \/ \E s \in CtxSessions : load_context(s)
    \/ \E s \in CtxSessions, m \in Msgs, w \in WriteOutcomes : append_message(s, m, w)
    \/ \E s \in CtxSessions, c \in Counts : get_recent_messages(s, c)
    \/ \E s \in CtxSessions : clear_context(s)
    \/ Tick

SpecCtx == Init /\ [][NextCtx]_vars


\* C1: after a run of more than max_messages append_message calls on one
\* session, with nothing in between, load_context returns exactly the
\* trailing max_messages appended messages in the order they were appended.
C1_SlidingWindow ==
    (op.name = "load_context" /\ Len(run.msgs) > max_messages)
        => ret = LastN(run.msgs, max_messages)

\* C2: on a fresh session, after appending m1..mn (2 <= n <= max_messages),
\* get_recent_messages(session, k) with 1 <= k <= n returns the last k
\* appended messages in append order.
C2_RecentAfterAppends ==
    (/\ op.name = "get_recent_messages"
     /\ run.fresh
     /\ Len(run.msgs) >= 2 /\ Len(run.msgs) <= max_messages
     /\ op.arg[1] >= 1 /\ op.arg[1] <= Len(run.msgs))
        => ret = LastN(run.msgs, op.arg[1])

\* C3: after a successful save_context or append_message, load_context (and
\* get_recent_messages) returns the same messages whether it is answered
\* from the cache entry or read through after the entry has been removed.
C3_CacheDiskConsistent ==
    \A s \in CtxSessions :
        (/\ op.name \in {"save_context", "append_message"}
         /\ op.ok /\ op.key = s
         /\ s \in DOMAIN memory_cache)
            => LET cached == LoadContext(sessions_dir, memory_cache, cache_order, s, now)
                   direct == LoadContext(sessions_dir, DictPop(memory_cache, s),
                                         RemoveFirst(cache_order, s), s, now)
               IN  /\ cached.messages = direct.messages
                   /\ \A c \in Counts :
                        LastN(cached.messages, c) = LastN(direct.messages, c)

(***************************************************************************)
(* SpecConc: two threads, each calling append_message once on the same     *)
(* session.  ContextManager creates no lock, so the threads interleave at  *)
(* every step of load_context / save_context.                              *)
(***************************************************************************)
ThreadMsg == [t \in Threads |-> IF t = "t1" THEN "user:hi" ELSE "assistant:hello"]

\* the other threads' lists are no longer the cache entry's list once the
\* entry of their session is replaced
Unshare(loc, t, session_id, replaced) ==
    [u \in Threads |->
        IF u # t /\ replaced /\ loc[u].session_id = session_id
        THEN [loc[u] EXCEPT !.shared = FALSE]
        ELSE loc[u]]

t_call(t, session_id) ==
    /\ pc[t] = "idle"
    /\ pc' = [pc EXCEPT ![t] = "load"]
    /\ local' = [local EXCEPT ![t] = [NoLocal EXCEPT !.session_id = session_id,
                                                     !.message = ThreadMsg[t]]]
    /\ UNCHANGED <<ctxVars, logVars, now, op, ret, run>>

\* messages = self.load_context(session_id)
t_load(t) ==
    /\ pc[t] = "load"
    /\ LET s == local[t].session_id
           ld == LoadContext(sessions_dir, memory_cache, cache_order, s, now)
           loc == [local EXCEPT ![t].messages = ld.messages, ![t].shared = ld.shared]
       IN  /\ memory_cache' = ld.cache
           /\ cache_order' = ld.order
           /\ local' = Unshare(loc, t, s, ld.cache # memory_cache)
    /\ pc' = [pc EXCEPT ![t] = "append"]
    /\ UNCHANGED <<sessions_dir, first_created, logVars, now, op, ret, run>>

\* messages.append(message); messages = messages[-max_messages:]
t_append(t) ==
    /\ pc[t] = "append"
    /\ LET s == local[t].session_id
           appended == Append(local[t].messages, local[t].message)
           inCache == local[t].shared /\ s \in DOMAIN memory_cache
           cut == Len(appended) > max_messages
       IN  /\ memory_cache' = IF inCache
                              THEN [memory_cache EXCEPT ![s].data.messages = appended]
                              ELSE memory_cache
           /\ local' = [local EXCEPT
                          ![t].messages = IF cut THEN LastN(appended, max_messages)
                                          ELSE appended,
                          ![t].shared = inCache /\ ~cut]
    /\ pc' = [pc EXCEPT ![t] = "save"]
    /\ UNCHANGED <<sessions_dir, first_created, cache_order, logVars, now, op, ret, run>>

\* save_context builds the context dict
t_context(t) ==
    /\ pc[t] = "save"
    /\ local' = [local EXCEPT
                   ![t].created_at =
                       _get_or_create_created_at(sessions_dir, local[t].session_id, now),
                   ![t].last_active = now]
    /\ pc' = [pc EXCEPT ![t] = "open"]
    /\ UNCHANGED <<ctxVars, logVars, now, op, ret, run>>

\* open(context_file, 'w') truncates the file
t_open(t, write) ==
    /\ pc[t] = "open"
    /\ write \in {"ok", "open"}
    /\ IF write = "ok"
       THEN /\ sessions_dir' = [sessions_dir EXCEPT ![local[t].session_id] = CorruptFile]
            /\ pc' = [pc EXCEPT ![t] = "dump"]
       ELSE /\ UNCHANGED sessions_dir
            /\ pc' = [pc EXCEPT ![t] = "raised"]
    /\ first_created' = Born(first_created, sessions_dir')
    /\ UNCHANGED <<memory_cache, cache_order, local, logVars, now, op, ret, run>>

\* json.dump and the close that flushes it
t_dump(t, write) ==
    /\ pc[t] = "dump"
    /\ write \in {"ok", "dump"}
    /\ IF write = "ok"
       THEN /\ sessions_dir' = [sessions_dir EXCEPT ![local[t].session_id] =
                    Context(local[t].created_at, local[t].last_active,
                            local[t].messages, <<>>, {})]
            /\ pc' = [pc EXCEPT ![t] = "cache"]
       ELSE /\ UNCHANGED sessions_dir
            /\ pc' = [pc EXCEPT ![t] = "raised"]
    /\ first_created' = Born(first_created, sessions_dir')
    /\ UNCHANGED <<memory_cache, cache_order, local, logVars, now, op, ret, run>>

\* self._update_cache(session_id, context)
t_cache(t) ==
    /\ pc[t] = "cache"
    /\ LET s == local[t].session_id
           c == _update_cache(memory_cache, cache_order, s,
                              Context(local[t].created_at, local[t].last_active,
                                      local[t].messages, <<>>, {}), now)
       IN  /\ memory_cache' = c.cache
           /\ cache_order' = c.order
           /\ local' = Unshare([local EXCEPT ![t].shared = s \in DOMAIN c.cache],
                               t, s, TRUE)
    /\ pc' = [pc EXCEPT ![t] = "done"]
    /\ UNCHANGED <<sessions_dir, first_created, logVars, now, op, ret, run>>

NextConc ==
    \/ \E t \in Threads, s \in CtxSessions : t_call(t, s)
    \/ \E t \in Threads : t_load(t)
    \/ \E t \in Threads : t_append(t)
    \/ \E t \in Threads : t_context(t)
    \/ \E t \in Threads, w \in WriteOutcomes : t_open(t, w)
    \/ \E t \in Threads, w \in WriteOutcomes : t_dump(t, w)
    \/ \E t \in Threads : t_cache(t)
    \/ Tick

SpecConc == Init /\ [][NextConc]_vars

\* C4: when two threads call append_message concurrently on one session
\* and both calls complete, the durable document contains both appended
\* messages, in every interleaving.
C4_NoLostUpdate ==
    (\A t \in Threads : pc[t] = "done")
        => \A s \in CtxSessions :
              /\ IsDoc(sessions_dir[s])
              /\ \A t \in Threads : ThreadMsg[t] \in Range(sessions_dir[s].messages)


(***************************************************************************)
(* DanmakuCacheManager, one call at a time.                                *)
(***************************************************************************)
add_raw_danmaku(danmaku, write) ==
    /\ Len(raw_file) < MaxLog
    /\ raw_file' = AppendLine(raw_file, AsRaw(danmaku), write)
    /\ op' = Call("add_raw_danmaku", danmaku.id, Returned, write = "ok")
    /\ chain' = IF write = "ok" THEN [stage |-> "raw", r |-> AsRaw(danmaku)] ELSE NoChain
    /\ ret' = <<>>
    /\ UNCHANGED <<audited_file, ctxVars, thrVars, now, run, _lock>>

\* add_audited_danmaku as a move: the audited record leaves the raw log
add_audited_danmaku_moving(danmaku, audit_result, write) ==
    /\ Len(audited_file) < MaxLog
    /\ audited_file' = AppendLine(audited_file, AsAudited(danmaku, audit_result), write)
    /\ raw_file' = SelectSeq(raw_file, LAMBDA line : line.data.id # danmaku.id)
    /\ op' = Call("add_audited_danmaku", danmaku.id, Returned, write = "ok")
    /\ chain' = IF write = "ok" /\ chain.stage = "raw" /\ chain.r = danmaku
                THEN [stage |-> "audited", r |-> chain.r, outcome |-> audit_result]
                ELSE NoChain
    /\ ret' = <<>>
    /\ UNCHANGED <<ctxVars, thrVars, now, run, _lock>>

add_audited_danmaku(danmaku, audit_result, write) ==
    /\ Len(audited_file) < MaxLog
    /\ audited_file' = AppendLine(audited_file, AsAudited(danmaku, audit_result), write)
    /\ op' = Call("add_audited_danmaku", danmaku.id, Returned, write = "ok")
    /\ chain' = IF write = "ok" /\ chain.stage = "raw" /\ chain.r = danmaku
                THEN [stage |-> "audited", r |-> chain.r, outcome |-> audit_result]
                ELSE NoChain
    /\ ret' = <<>>
    /\ UNCHANGED <<raw_file, ctxVars, thrVars, now, run, _lock>>

get_recent_danmaku(count, only_raw, platform, since) ==
    /\ ret' = GetRecentDanmaku(IF only_raw THEN raw_file ELSE audited_file,
                               count, platform, since)
    /\ op' = Call("get_recent_danmaku", "none",
                  [count |-> count, only_raw |-> only_raw,
                   platform |-> platform, since |-> since], TRUE)
    /\ UNCHANGED <<logVars, ctxVars, thrVars, now, run>>

get_danmaku_by_id(danmaku_id, only_raw) ==
    /\ ret' = GetDanmakuById(raw_file, audited_file, danmaku_id, only_raw)
    /\ op' = Call("get_danmaku_by_id", danmaku_id, [only_raw |-> only_raw], TRUE)
    /\ UNCHANGED <<logVars, ctxVars, thrVars, now, run>>

update_audit_result(danmaku_id, audit_result, write) ==
    LET danmaku == GetDanmakuById(raw_file, audited_file, danmaku_id, TRUE)
        found == danmaku # NoneValue
    IN  /\ found => Len(audited_file) < MaxLog
        /\ ~found => write = "ok"
        /\ audited_file' = IF found
                           THEN AppendLine(audited_file, AsAudited(danmaku, audit_result), write)
                           ELSE audited_file
        /\ op' = Call("update_audit_result", danmaku_id,
                      [found |-> found, raised |-> FALSE], write = "ok")
        /\ chain' = IF found /\ write = "ok" /\ chain.stage = "raw" /\ chain.r.id = danmaku_id
                    THEN [stage |-> "updated", r |-> chain.r, outcome |-> audit_result]
                    ELSE NoChain
        /\ ret' = <<>>
        /\ UNCHANGED <<raw_file, ctxVars, thrVars, now, run, _lock>>

cleanup_old_danmaku(days) ==
    LET cutoff_time == now - EffectiveDays(days)
        r == CleanupFile(raw_file, cutoff_time)
        a == CleanupFile(audited_file, cutoff_time)
    IN  /\ raw_file' = r.lines
        /\ audited_file' = IF r.raised THEN audited_file ELSE a.lines
        /\ op' = Call("cleanup_old_danmaku", "none", <<days>>, ~r.raised /\ ~a.raised)
        /\ chain' = NoChain
        /\ ret' = <<>>
        /\ UNCHANGED <<ctxVars, thrVars, now, run, _lock>>

\* number of lines of a log with the given audit_status, as the loop counts
\* them: data.get('audit_status', '') of every non-blank line
CountStatus(lines, status) ==
    Cardinality({i \in 1..Len(lines) :
                    /\ lines[i].kind = "record"
                    /\ DictGet(lines[i].data, "audit_status", "") = status})

\* get_statistics with pending_count as the raw records not yet audited
GetStatistics_unaudited(rawLines, auditedLines) ==
    LET raw_count == Len(rawLines)
        audited_count == Cardinality({i \in 1..Len(auditedLines) :
                                         auditedLines[i].kind # "blank"})
    IN  [raised |-> \E i \in 1..Len(auditedLines) : auditedLines[i].kind = "malformed",
         raw_count |-> raw_count,
         audited_count |-> audited_count,
         approved_count |-> CountStatus(auditedLines, "approved"),
         rejected_count |-> CountStatus(auditedLines, "rejected"),
         pending_count |-> IF raw_count > audited_count
                           THEN raw_count - audited_count ELSE 0]

\* get_statistics: raw_count is sum(1 for _ in f), every line of the raw
\* file; each non-blank audited line is counted and then parsed by
\* json.loads outside any try, so a malformed line raises out of the call;
\* pending_count = raw_count
GetStatistics(rawLines, auditedLines) ==
    LET raw_count == Len(rawLines)
        audited_count == Cardinality({i \in 1..Len(auditedLines) :
                                         auditedLines[i].kind # "blank"})
    IN  [raised |-> \E i \in 1..Len(auditedLines) : auditedLines[i].kind = "malformed",
         raw_count |-> raw_count,
         audited_count |-> audited_count,
         approved_count |-> CountStatus(auditedLines, "approved"),
         rejected_count |-> CountStatus(auditedLines, "rejected"),
         pending_count |-> raw_count]

get_statistics ==
    /\ ret' = GetStatistics(raw_file, audited_file)
    /\ op' = Call("get_statistics", "none", <<>>, TRUE)
    /\ UNCHANGED <<logVars, ctxVars, thrVars, now, run>>

(***************************************************************************)
(* SpecLog: the two logs under the writing calls of the ingestion and      *)
(* moderation pipelines, made one at a time.  A record is stamped with the *)
(* current time or is a stale one, older than the retention window.       *)
(***************************************************************************)
Ids == {"e1", "e2"}

Allowed == [allowed |-> TRUE]
Spam == [allowed |-> FALSE, reason |-> "spam"]
Outcomes == {Allowed, Spam}

\* an audit result without the key "allowed"
NoVerdict == [reason |-> "timeout"]
AuditOutcomes == Outcomes \cup {NoVerdict}

StaleAge == retention_days + 1

\* a record as ingested, and the same record after an earlier audit
Fresh(id, timestamp) ==
    DanmakuMessage(id, "live", "hello", timestamp, TRUE, "pending", EmptyDict)

Ingested(t) ==
    LET fresh == {Fresh(id, Naive(ts)) : id \in Ids, ts \in {t, t - StaleAge}}
    IN  fresh \cup {AsAudited(Fresh("e1", Naive(t)), Allowed)}

DaysArgs == {0, 1, 2}

NextLog ==
    \/ \E d \in Ingested(now), w \in {"ok", "fail"} : add_raw_danmaku(d, w)
    \/ \E d \in Ingested(now), o \in Outcomes, w \in {"ok", "fail"} :
          add_audited_danmaku(d, o, w)
    \/ \E id \in Ids, o \in Outcomes, w \in {"ok", "fail"} : update_audit_result(id, o, w)
    \/ \E days \in DaysArgs : cleanup_old_danmaku(days)

SpecLog == Init /\ [][NextLog]_vars

\* C5: after add_raw_danmaku(r) followed by add_audited_danmaku(r, outcome)
\* the raw log still holds r's line with audit_status pending and an empty
\* audit_result, the audited log holds r's line with the outcome attached,
\* get_recent_danmaku(only_raw=True) returns the pending copy and
\* get_recent_danmaku(only_raw=False) the audited copy.
C5_RawAuditedIndependent ==
    chain.stage = "audited" =>
        LET r == chain.r
            pending == DanmakuMessage(r.id, r.platform, r.content, r.timestamp,
                                      TRUE, "pending", EmptyDict)
            audited == DanmakuMessage(r.id, r.platform, r.content, r.timestamp, FALSE,
                                      IF chain.outcome.allowed THEN "approved" ELSE "rejected",
                                      chain.outcome)
        IN  /\ raw_file # <<>> /\ raw_file[Len(raw_file)] = Line(pending)
            /\ audited_file # <<>> /\ audited_file[Len(audited_file)] = Line(audited)
            /\ pending \in Range(GetRecentDanmaku(raw_file, DefaultCount, NoPlatform, NoSince))
            /\ audited \in Range(GetRecentDanmaku(audited_file, DefaultCount, NoPlatform, NoSince))
            /\ \A i \in 1..Len(raw_file) : raw_file[i].data.audit_status = "pending"

\* C5 is met: r was added raw behind another record, then audited as spam
C5_Witness ==
    /\ chain.stage = "audited"
    /\ chain.outcome = Spam
    /\ Len(raw_file) > 1
    /\ raw_file[1].data.id # chain.r.id

\* C6: after add_raw_danmaku(r) and update_audit_result(r.id, outcome),
\* get_danmaku_by_id(r.id, only_raw=False) returns the audited record
\* (rejected when outcome.allowed is false, approved when true, outcome
\* attached) and get_danmaku_by_id(r.id, only_raw=True) the pending one.
C6_ByIdAfterUpdate ==
    chain.stage = "updated" =>
        LET audited == GetDanmakuById(raw_file, audited_file, chain.r.id, FALSE)
            original == GetDanmakuById(raw_file, audited_file, chain.r.id, TRUE)
        IN  /\ audited # NoneValue
            /\ audited.audit_status =
                  (IF chain.outcome.allowed THEN "approved" ELSE "rejected")
            /\ audited.audit_result = chain.outcome
            /\ original # NoneValue
            /\ original.id = chain.r.id
            /\ original.audit_status = "pending"


(***************************************************************************)
(* SpecFiles: the reading calls and the retention sweep on log files as    *)
(* they may be found on disk: records of any age, records whose timestamp  *)
(* does not parse or carries a UTC offset, and a line cut short by an      *)
(* interrupted write.  The clock stands at MaxNow.                         *)
(***************************************************************************)
SeqUpTo(S, n) == UNION {[1..k -> S] : k \in 0..n}

FileTimes == {Naive(t) : t \in 0..MaxNow} \cup {BadTime, Aware(0)}

RawLines ==
    {Line(to_dict(Fresh("e1", ts))) : ts \in FileTimes}
        \cup {Line(to_dict(Fresh("e2", Naive(MaxNow)))), MalformedLine}

AuditedLines ==
    {Line(to_dict(AsAudited(Fresh("e1", Naive(0)), Allowed))),
     Line(to_dict(AsAudited(Fresh("e2", Naive(MaxNow)), Spam))),
     MalformedLine}

InitFiles ==
    /\ sessions_dir = [s \in Sessions |-> NoFile]
    /\ memory_cache = EmptyDict
    /\ cache_order = <<>>
    /\ first_created = [s \in Sessions |-> {}]
    /\ raw_file \in SeqUpTo(RawLines, MaxScan)
    /\ audited_file \in SeqUpTo(AuditedLines, 1)
    /\ now = MaxNow
    /\ op = NoCall
    /\ ret = <<>>
    /\ chain = NoChain
    /\ _lock = "free"
    /\ run = NoRun
    /\ pc = [t \in Threads |-> "idle"]
    /\ local = [t \in Threads |-> NoLocal]

CountArgs == {0, 1, DefaultCount}

\* platform and since arguments of a filtered read
FilterArgs ==
    {[platform |-> "live", since |-> NoSince],
     [platform |-> NoPlatform, since |-> Naive(1)],
     [platform |-> "other", since |-> Naive(1)]}

NextFiles ==
    \/ \E c \in CountArgs, r \in BOOLEAN : get_recent_danmaku(c, r, NoPlatform, NoSince)
    \/ \E c \in {1, 2}, f \in FilterArgs : get_recent_danmaku(c, TRUE, f.platform, f.since)
    \/ \E id \in Ids, r \in BOOLEAN : get_danmaku_by_id(id, r)
    \/ \E days \in DaysArgs : cleanup_old_danmaku(days)
    \/ get_statistics

SpecFiles == InitFiles /\ [][NextFiles]_vars

AllRecords(lines) == \A i \in 1..Len(lines) : lines[i].kind = "record"

\* the lines the claim keeps: timestamp unparseable, or parseable and after
\* the cutoff
Retained(lines, cutoff) ==
    SelectSeq(lines, LAMBDA line :
        \/ line.data.timestamp.kind = "bad"
        \/ line.data.timestamp.kind \in {"naive", "aware"} /\ line.data.timestamp.t > cutoff)

\* C7: cleanup_old_danmaku(days) rewrites the raw and the audited log so
\* that each holds exactly its lines whose timestamp does not parse or lies
\* after now - days, in their original order.
C7_Retention ==
    [][\A days \in DaysArgs :
          (cleanup_old_danmaku(days) /\ AllRecords(raw_file) /\ AllRecords(audited_file))
              => /\ raw_file' = Retained(raw_file, now - days)
                 /\ audited_file' = Retained(audited_file, now - days)]_vars

\* the log read by the last get_recent_danmaku call
ReadLog == IF op.arg.only_raw THEN raw_file ELSE audited_file

ValidRecords(lines) ==
    {from_dict(lines[i].data) : i \in {j \in 1..Len(lines) : lines[j].kind = "record"}}

NumMalformed(lines) == Cardinality({i \in 1..Len(lines) : lines[i].kind = "malformed"})

NumRecords(lines) == Cardinality({i \in 1..Len(lines) : lines[i].kind = "record"})

\* C8: on a log of N valid lines and one malformed line at any position,
\* with N within the read window, get_recent_danmaku returns exactly the N
\* valid records.
C8_CorruptLineResilience ==
    (/\ op.name = "get_recent_danmaku"
     /\ NumMalformed(ReadLog) = 1
     /\ Len(ReadLog) <= op.arg.count)
        => /\ Len(ret) = NumRecords(ReadLog)
           /\ Range(ret) = ValidRecords(ReadLog)

\* C9: without platform or since filter get_recent_danmaku(count, only_raw),
\* here for count >= 1, returns the min(count, 100, log length) most recently
\* appended records of the selected log, newest first: the first element of
\* the result is the last record appended.
C9_RecentNewestFirst ==
    (/\ op.name = "get_recent_danmaku"
     /\ op.arg.count >= 1
     /\ op.arg.platform = NoPlatform /\ op.arg.since = NoSince
     /\ AllRecords(ReadLog))
        => LET n == Min(Min(op.arg.count, HardMaxCount), Len(ReadLog))
           IN  /\ Len(ret) = n
               /\ \A i \in 1..n : ret[i] = from_dict(ReadLog[Len(ReadLog) + 1 - i].data)


(***************************************************************************)
(* SpecMono: the mono-context of one session.  add_mono_context cannot     *)
(* store an item (it raises), so items reach the document through          *)
(* save_context(..., mono_context=...).                                    *)
(***************************************************************************)
\* items expiring one tick before the end of the clock, at its end, with an
\* expires_at that does not parse, and with one that carries a UTC offset
ItemA1 == MonoItem("a", Naive(MaxNow - 1), 1)
ItemA2 == MonoItem("a", Naive(MaxNow), 2)
ItemB2 == MonoItem("b", Naive(MaxNow), 2)
ItemBad == MonoItem("c", BadTime, 1)
ItemAware == MonoItem("d", Aware(MaxNow), 1)

MonoArgs ==
    {<<>>, <<ItemA1>>, <<ItemA1, ItemB2>>, <<ItemB2, ItemA1>>, <<ItemA1, ItemA2>>,
     <<ItemBad, ItemB2>>, <<ItemA1, ItemAware>>}

NextMono ==
    \/ \E s \in CtxSessions, m \in {<<>>, <<"user:hi">>}, mono \in MonoArgs,
          w \in WriteOutcomes : save_context(s, m, {}, mono, w)
    \/ \E s \in CtxSessions, w \in WriteOutcomes : append_message(s, "user:bye", w)
    \/ \E s \in CtxSessions : load_context(s)
    \/ \E s \in CtxSessions : add_mono_context(s, "a", 1)
    \/ \E s \in CtxSessions : get_mono_context(s)
    \/ \E s \in CtxSessions, w \in WriteOutcomes : clear_expired_mono(s, w)
    \/ \E s \in CtxSessions : clear_context(s)
    \/ Tick

SpecMono == Init /\ [][NextMono]_vars

\* the stored items with the given content, and those of them still valid
\* at time t
ItemsWith(mono, content) == {i \in 1..Len(mono) : mono[i].content = content}

Occurrences(list, x) == Cardinality({i \in 1..Len(list) : list[i] = x})

\* C10: a stored mono-context item with expiry time E is returned by
\* get_mono_context for every query made strictly before E and is not
\* returned for any query made at or after E.
C10_MonoExpiryBoundary ==
    \A s \in CtxSessions :
        (op.name = "get_mono_context" /\ op.key = s /\ IsDoc(sessions_dir[s]))
            => LET mono == sessions_dir[s].mono_context
                   asked == op.arg[1]
               IN  \A content \in {"a", "b"} :
                       Occurrences(ret, content) =
                           Cardinality({i \in ItemsWith(mono, content) :
                                           asked < mono[i].expires_at.t})

\* C10 is met: a query made exactly at the expiry time of one stored item
\* and before that of another
C10_Witness ==
    /\ op.name = "get_mono_context"
    /\ IsDoc(sessions_dir["s1"])
    /\ ret = <<"b">>
    /\ \E i \in 1..Len(sessions_dir["s1"].mono_context) :
          sessions_dir["s1"].mono_context[i].expires_at = Naive(op.arg[1])

\* C11: add_mono_context(session, content, rounds) with rounds >= 1 completes
\* without error and leaves the session's document with the previous
\* mono_context and one item {content, expires_at, rounds} appended at its
\* end.
C11_AddMonoContext ==
    [][\A s \in CtxSessions :
          add_mono_context(s, "a", 1)
              => /\ op'.ok
                 /\ IsDoc(sessions_dir'[s])
                 /\ LET before == _load_mono_context(sessions_dir, s)
                        after == sessions_dir'[s].mono_context
                    IN  /\ Len(after) = Len(before) + 1
                        /\ SubSeq(after, 1, Len(before)) = before
                        /\ after[Len(after)].content = "a"
                        /\ after[Len(after)].rounds = 1]_vars

(***************************************************************************)
(* SpecLru: three sessions sharing a memory cache of max_cache_size        *)
(* entries, under saves, loads and clears made one at a time.              *)
(***************************************************************************)
NextLru ==
    \/ \E s \in Sessions, w \in {"ok", "open"} :
          save_context(s, <<"user:hi">>, {}, <<>>, w)
    \/ \E s \in Sessions : load_context(s)
    \/ \E s \in Sessions : clear_context(s)
    \/ Tick

SpecLru == Init /\ [][NextLru]_vars

\* C12: when the memory cache holds max_cache_size entries and a new key is
\* put, exactly one key is evicted and it is the least recently touched one,
\* a touch being a put or a load served from the cache: the key whose
\* load_context was the last call made stays in the cache, and so does the
\* new key.
C12_LruEviction ==
    [][\A s \in Sessions, k \in Sessions :
          (/\ save_context(s, <<"user:hi">>, {}, <<>>, "ok")
           /\ s \notin DOMAIN memory_cache
           /\ Cardinality(DOMAIN memory_cache) = max_cache_size
           /\ op.name = "load_context" /\ op.key = k
           /\ k \in DOMAIN memory_cache /\ IsDoc(sessions_dir[k]))
              => /\ k \in DOMAIN memory_cache'
                 /\ s \in DOMAIN memory_cache'
                 /\ Cardinality(DOMAIN memory_cache') = max_cache_size]_vars

\* C13: update_audit_result(id, outcome) returns without raising and leaves
\* the raw log unchanged; when no raw record with the id is found the
\* audited log is unchanged too, and when one is found exactly one line
\* carrying the id and the outcome is appended to the audited log.
C13_UpdateAuditResult ==
    [][\A id \in Ids, o \in Outcomes, w \in {"ok", "fail"} :
          update_audit_result(id, o, w)
              => /\ ~op'.arg.raised
                 /\ raw_file' = raw_file
                 /\ IF op'.arg.found
                    THEN /\ Len(audited_file') = Len(audited_file) + 1
                         /\ SubSeq(audited_file', 1, Len(audited_file)) = audited_file
                         /\ audited_file'[Len(audited_file')].data.id = id
                         /\ audited_file'[Len(audited_file')].data.audit_result = o
                    ELSE audited_file' = audited_file]_vars

\* C14: between the first write of a session and its clear_context the
\* created_at of the document stays the one the first write set, whatever
\* save_context and append_message calls are made, and every write sets
\* last_active anew.
C14_CreatedAtImmutable ==
    /\ [](\A s \in CtxSessions :
            IsDoc(sessions_dir[s]) => first_created[s] = {sessions_dir[s].created_at})
    /\ [][\A s \in CtxSessions :
            (\/ \E m \in SaveMsgs : save_context(s, m, {}, <<>>, "ok")
             \/ \E m \in Msgs : append_message(s, m, "ok"))
                => sessions_dir'[s].last_active = now]_vars

(***************************************************************************)
(* SpecStore: the session store under concurrent callers.  Two threads     *)
(* call append_message, interleaving at every step, while further callers  *)
(* make load_context and clear_context calls; no lock orders them.         *)
(***************************************************************************)
NextStore ==
    \/ \E t \in Threads, s \in CtxSessions : t_call(t, s)
    \/ \E t \in Threads : t_load(t)
    \/ \E t \in Threads : t_append(t)
    \/ \E t \in Threads : t_context(t)
    \/ \E t \in Threads, w \in WriteOutcomes : t_open(t, w)
    \/ \E t \in Threads, w \in WriteOutcomes : t_dump(t, w)
    \/ \E t \in Threads : t_cache(t)
    \/ \E s \in CtxSessions : load_context(s)
    \/ \E s \in CtxSessions : clear_context(s)
    \/ Tick

SpecStore == Init /\ [][NextStore]_vars

\* C15: clear_context(session), in any reachable state, leaves no document,
\* no cache entry and no recency-list entry for the session, so that a
\* following load_context returns the empty sequence; on a session that has
\* none of the three it changes nothing.
C15_ClearContext ==
    [][\A s \in CtxSessions :
          clear_context(s)
              => /\ sessions_dir'[s] = NoFile
                 /\ s \notin DOMAIN memory_cache'
                 /\ s \notin Range(cache_order')
                 /\ LoadContext(sessions_dir', memory_cache', cache_order', s, now).messages
                        = <<>>
                 /\ (/\ sessions_dir[s] = NoFile
                     /\ s \notin DOMAIN memory_cache
                     /\ s \notin Range(cache_order))
                        => UNCHANGED <<sessions_dir, memory_cache, cache_order>>]_vars

\* C16: load_context on a session that has no durable document returns the
\* empty sequence without raising, and creates neither a document nor a
\* cache entry.
C16_LoadAbsent ==
    [][\A s \in CtxSessions :
          (load_context(s) /\ sessions_dir[s] = NoFile)
              => /\ ret' = <<>>
                 /\ op'.ok
                 /\ sessions_dir' = sessions_dir
                 /\ memory_cache' = memory_cache
                 /\ cache_order' = cache_order]_vars

\* C16 is met: a load of a session whose document was written by a
\* completed append_message and then cleared
C16_Witness ==
    /\ op.name = "load_context" /\ op.key = "s1"
    /\ sessions_dir["s1"] = NoFile
    /\ "s1" \notin DOMAIN memory_cache
    /\ ret = <<>>
    /\ \E t \in Threads : pc[t] = "done"

\* C17: when the file append inside add_raw_danmaku or add_audited_danmaku
\* fails, the failure reaches the caller as an error: the call does not
\* return as if the record had been stored.
C17_AppendFailureReported ==
    (op.name \in {"add_raw_danmaku", "add_audited_danmaku"} /\ ~op.ok)
        => op.arg = Raised

\* C18: when the durable write inside save_context fails, save_context, and
\* append_message calling it, raises to the caller and the memory-cache
\* entry of the session is as it was before the call: absent, or the same
\* snapshot.
C18_SaveFailure ==
    [][\A s \in CtxSessions, w \in {"open", "dump"} :
          (\/ \E m \in SaveMsgs : save_context(s, m, {}, <<>>, w)
           \/ \E m \in Msgs : append_message(s, m, w))
              => /\ ~op'.ok
                 /\ (s \in DOMAIN memory_cache') = (s \in DOMAIN memory_cache)
                 /\ s \in DOMAIN memory_cache => memory_cache'[s] = memory_cache[s]]_vars

\* the session has no cache entry that load_context would serve
NotFreshlyCached(s) ==
    s \notin DOMAIN memory_cache \/ ~_is_cache_valid(memory_cache[s], now)

\* C19: a session document that cannot be parsed and is not freshly cached
\* behaves as no document: load_context returns the empty sequence,
\* get_mono_context the empty list, neither raises, and an append_message
\* whose write succeeds leaves a document holding exactly the appended
\* message.
C19_CorruptDocument ==
    [][\A s \in CtxSessions :
          (sessions_dir[s] = CorruptFile /\ NotFreshlyCached(s))
              => /\ load_context(s) => (ret' = <<>> /\ op'.ok)
                 /\ get_mono_context(s) => (ret' = <<>> /\ op'.ok)
                 /\ append_message(s, "user:bye", "ok")
                        => /\ op'.ok
                           /\ IsDoc(sessions_dir'[s])
                           /\ sessions_dir'[s].messages = <<"user:bye">>]_vars

\* C19 is met: a load of a session whose document was left unparseable by
\* a failed write and whose cache entry, put by an earlier save, is stale
C19_Witness ==
    /\ op.name = "load_context" /\ op.key = "s1"
    /\ sessions_dir["s1"] = CorruptFile
    /\ "s1" \in DOMAIN memory_cache
    /\ Len(memory_cache["s1"].data.mono_context) > 0
    /\ NotFreshlyCached("s1")
    /\ ret = <<>>

\* C20: whenever the memory cache has an entry for a session, the durable
\* document of the session exists and equals the cached snapshot; stated
\* for the states in which no append_message call is in progress.
C20_CacheNeverAhead ==
    (\A t \in Threads : pc[t] \in {"idle", "done", "raised"})
        => \A s \in DOMAIN memory_cache :
              /\ IsDoc(sessions_dir[s])
              /\ memory_cache[s].data = sessions_dir[s]

\* C21: after any sequence of add_raw_danmaku, add_audited_danmaku,
\* update_audit_result and cleanup_old_danmaku every line of the raw log has
\* audit_status pending and an empty audit_result, also when the record
\* handed to add_raw_danmaku had been audited before, and every line of the
\* audited log has audit_status approved or rejected.
C21_LogStatus ==
    /\ \A i \in 1..Len(raw_file) :
          /\ raw_file[i].data.audit_status = "pending"
          /\ raw_file[i].data.audit_result = EmptyDict
    /\ \A i \in 1..Len(audited_file) :
          audited_file[i].data.audit_status \in {"approved", "rejected"}

\* C21 is met: a record is added raw again after its audited line, a
\* rejection, was written
C21_Witness ==
    /\ op.name = "add_raw_danmaku" /\ op.ok
    /\ audited_file # <<>> /\ raw_file # <<>>
    /\ audited_file[Len(audited_file)].data.id = raw_file[Len(raw_file)].data.id
    /\ audited_file[Len(audited_file)].data.audit_status = "rejected"

(***************************************************************************)
(* SpecIngest: the danmaku plugin ingesting events.  DanmakuSubscriber     *)
(* stamps each event with an id made of the clock reading alone and        *)
(* DanmakuPlugin._handle_danmaku hands the record to add_raw_danmaku.      *)
(***************************************************************************)
\* f"danmaku_{datetime.now().strftime('%Y%m%d_%H%M%S_%f')}": the prefix and
\* the clock reading, to the microsecond
DanmakuId(t) == <<"danmaku", t>>

Contents_in == {"hello", "bye", "spam"}

on_next(content, write) ==
    LET danmaku_data == [id |-> DanmakuId(now), platform |-> "live",
                         content |-> content, timestamp |-> Naive(now)]
        danmaku == DanmakuMessage(danmaku_data.id, danmaku_data.platform,
                                  danmaku_data.content, danmaku_data.timestamp,
                                  TRUE, "pending", EmptyDict)
    IN  /\ Len(raw_file) < MaxLog
        /\ raw_file' = AppendLine(raw_file, AsRaw(danmaku), write)
        /\ op' = Call("on_next", danmaku.id, Returned, write = "ok")
        /\ chain' = NoChain
        /\ ret' = <<>>
        /\ UNCHANGED <<audited_file, ctxVars, thrVars, now, run, _lock>>

NextIngest ==
    \/ \E c \in Contents_in, w \in {"ok", "fail"} : on_next(c, w)
    \/ \E id \in {DanmakuId(t) : t \in 0..MaxNow}, o \in Outcomes, w \in {"ok", "fail"} :
          update_audit_result(id, o, w)
    \/ Tick

SpecIngest == Init /\ [][NextIngest]_vars

\* C22: any two distinct ingested events receive distinct ids, also when
\* both ids are generated within the same clock tick.
C22_UniqueIds ==
    \A i, j \in 1..Len(raw_file) :
        i # j => raw_file[i].data.id # raw_file[j].data.id

(***************************************************************************)
(* SpecLong: look-ups by id on a raw log longer than the window            *)
(* get_recent_danmaku reads.  One line carries the id e1, at any position, *)
(* all others e2.                                                          *)
(***************************************************************************)
LongLens == {HardMaxCount, HardMaxCount + 1}

LongLog(len, p) ==
    [i \in 1..len |-> Line(to_dict(Fresh(IF i = p THEN "e1" ELSE "e2", Naive(0))))]

InitLong ==
    /\ sessions_dir = [s \in Sessions |-> NoFile]
    /\ memory_cache = EmptyDict
    /\ cache_order = <<>>
    /\ first_created = [s \in Sessions |-> {}]
    /\ \E len \in LongLens : \E p \in 1..len : raw_file = LongLog(len, p)
    /\ audited_file = <<>>
    /\ now = 0
    /\ op = NoCall
    /\ ret = <<>>
    /\ chain = NoChain
    /\ _lock = "free"
    /\ run = NoRun
    /\ pc = [t \in Threads |-> "idle"]
    /\ local = [t \in Threads |-> NoLocal]

NextLong ==
    \E id \in Ids, r \in BOOLEAN : get_danmaku_by_id(id, r)

SpecLong == InitLong /\ [][NextLong]_vars

\* C23: get_danmaku_by_id(id, only_raw=True) returns a record with that id
\* whenever some line of the raw log carries the id, for a raw log of any
\* length, and returns None exactly when no raw line carries it.
C23_ByIdAnyLength ==
    (op.name = "get_danmaku_by_id" /\ op.arg.only_raw)
        => LET carried == \E i \in 1..Len(raw_file) :
                              raw_file[i].kind = "record" /\ raw_file[i].data.id = op.key
           IN  /\ carried <=> ret # NoneValue
               /\ ret # NoneValue => ret.id = op.key


\* C24: in every state reached by add_raw_danmaku, add_audited_danmaku,
\* update_audit_result and cleanup_old_danmaku, get_statistics returns
\* raw_count equal to the number of records in the raw log, audited_count
\* equal to the number of records in the audited log, approved_count +
\* rejected_count = audited_count, and pending_count = raw_count.
C24_Statistics ==
    LET stats == GetStatistics(raw_file, audited_file)
    IN  /\ ~stats.raised
        /\ stats.raw_count = NumRecords(raw_file)
        /\ stats.audited_count = NumRecords(audited_file)
        /\ stats.approved_count + stats.rejected_count = stats.audited_count
        /\ stats.pending_count = stats.raw_count

\* C24 is met: two raw records, one of them audited and rejected, and the
\* statistics count them so
C24_Witness ==
    /\ op.name = "update_audit_result" /\ op.ok /\ op.arg.found
    /\ LET stats == GetStatistics(raw_file, audited_file)
       IN  /\ stats.raw_count = 2
           /\ stats.audited_count = 1
           /\ stats.rejected_count = 1
           /\ stats.pending_count = 2

\* C25: get_statistics on logs that contain one malformed line does not
\* raise: the malformed line is treated as absent and the counts of the
\* remaining valid lines are returned.
C25_StatisticsCorruptLine ==
    (op.name = "get_statistics" /\ NumMalformed(raw_file) + NumMalformed(audited_file) = 1)
        => /\ ~ret.raised
           /\ ret.raw_count = NumRecords(raw_file)
           /\ ret.audited_count = NumRecords(audited_file)
           /\ ret.approved_count = CountStatus(audited_file, "approved")
           /\ ret.rejected_count = CountStatus(audited_file, "rejected")


\* the mono-context items a session's document holds
StoredMono(s) == IF IsDoc(sessions_dir[s]) THEN sessions_dir[s].mono_context ELSE <<>>

NaiveExpiry(mono) == \A i \in 1..Len(mono) : mono[i].expires_at.kind = "naive"

StillValid(item, t) == item.expires_at.t > t

\* C26: clear_expired_mono(session) performs no durable write when every
\* stored mono-context item is still valid (the document, last_active
\* included, is unchanged); otherwise it re-saves the document with
\* mono_context equal to exactly the valid items in their original order.
\* Stated for stored items whose expires_at is a time, and for a re-save
\* the disk accepts.
C26_ClearExpiredMono ==
    [][\A s \in CtxSessions, w \in WriteOutcomes :
          (clear_expired_mono(s, w) /\ NaiveExpiry(StoredMono(s)))
              => IF \A i \in 1..Len(StoredMono(s)) : StillValid(StoredMono(s)[i], now)
                 THEN sessions_dir' = sessions_dir
                 ELSE op'.ok
                        => /\ IsDoc(sessions_dir'[s])
                           /\ sessions_dir'[s].mono_context
                                 = SelectSeq(StoredMono(s),
                                             LAMBDA item : StillValid(item, now))
                           /\ sessions_dir'[s].last_active = now]_vars

\* C26 is met: the sweep found an expired item before a valid one and
\* re-saved the document with the valid one alone
C26_Witness ==
    /\ op.name = "clear_expired_mono" /\ op.ok
    /\ op.arg.saved
    /\ op.arg.stored = <<ItemA1, ItemB2>>
    /\ IsDoc(sessions_dir["s1"])
    /\ sessions_dir["s1"].mono_context = <<ItemB2>>

\* C27: mono-context items whose expires_at cannot be parsed are kept, not
\* dropped: after clear_expired_mono the stored mono_context still contains
\* every item with an unparseable expires_at.
C27_UnparseableKept ==
    [][\A s \in CtxSessions, w \in WriteOutcomes :
          (clear_expired_mono(s, w) /\ op'.ok)
              => \A i \in 1..Len(StoredMono(s)) :
                    StoredMono(s)[i].expires_at = BadTime
                        => /\ IsDoc(sessions_dir'[s])
                           /\ StoredMono(s)[i] \in Range(sessions_dir'[s].mono_context)]_vars


\* positions of a thread between its read of the cache or the document and
\* the end of its write: inside the read-modify-write of append_message
InsideStore == {"append", "save", "open", "dump", "cache"}

\* C28: lock discipline of the session context store: in every interleaving
\* of concurrent calls the memory cache and its recency list are read or
\* modified only by a thread that holds the store's lock, so at most one
\* thread is inside a cache read/update or a disk read-modify-write at any
\* time.
C28_OneThreadInside ==
    Cardinality({t \in Threads : pc[t] \in InsideStore}) <= 1


(***************************************************************************)
(* SpecLock: the calls of the DanmakuCacheManager made by two threads, one *)
(* call each, step by step around self._lock.  add_raw_danmaku,            *)
(* add_audited_danmaku and cleanup_old_danmaku run their body inside       *)
(* "with self._lock"; update_audit_result looks the record up with no lock *)
(* held and then calls add_audited_danmaku; get_recent_danmaku and         *)
(* get_danmaku_by_id take no lock.  Every thread that can take a step      *)
(* eventually takes one.                                                   *)
(***************************************************************************)
LogCall(name, danmaku, arg) ==
    [name |-> name, danmaku |-> danmaku, arg |-> arg, raised |-> FALSE, ret |-> <<>>]

LockCalls ==
    {LogCall("add_raw_danmaku", Fresh("e1", Naive(0)), <<>>),
     LogCall("add_raw_danmaku", Fresh("e2", Naive(0 - StaleAge)), <<>>),
     LogCall("add_audited_danmaku", Fresh("e1", Naive(0)), Spam),
     LogCall("update_audit_result", NoneValue, [id |-> "e1", outcome |-> Allowed]),
     LogCall("cleanup_old_danmaku", NoneValue, [days |-> 0]),
     LogCall("get_recent_danmaku", NoneValue, [count |-> DefaultCount]),
     LogCall("get_danmaku_by_id", NoneValue, [id |-> "e1"])}

\* where a call starts: at the lock, at the lookup that precedes it, or at
\* a read that takes no lock
FirstStep(name) ==
    IF name = "update_audit_result" THEN "lookup"
    ELSE IF name \in {"get_recent_danmaku", "get_danmaku_by_id"} THEN "read"
    ELSE "acquire"

l_call(t, c) ==
    /\ pc[t] = "idle"
    /\ local' = [local EXCEPT ![t] = c]
    /\ pc' = [pc EXCEPT ![t] = FirstStep(c.name)]
    /\ UNCHANGED <<ctxVars, logVars, now, op, ret, run>>

\* update_audit_result: danmaku = self.get_danmaku_by_id(danmaku_id, only_raw=True)
l_lookup(t) ==
    /\ pc[t] = "lookup"
    /\ LET danmaku == GetDanmakuById(raw_file, audited_file, local[t].arg.id, TRUE)
       IN  IF danmaku # NoneValue
           THEN /\ local' = [local EXCEPT ![t].danmaku = danmaku]
                /\ pc' = [pc EXCEPT ![t] = "acquire"]
           ELSE /\ pc' = [pc EXCEPT ![t] = "done"]
                /\ UNCHANGED local
    /\ UNCHANGED <<ctxVars, logVars, now, op, ret, run>>

l_read(t) ==
    /\ pc[t] = "read"
    /\ local' = [local EXCEPT ![t].ret =
                    IF local[t].name = "get_recent_danmaku"
                    THEN GetRecentDanmaku(raw_file, local[t].arg.count, NoPlatform, NoSince)
                    ELSE GetDanmakuById(raw_file, audited_file, local[t].arg.id, FALSE)]
    /\ pc' = [pc EXCEPT ![t] = "done"]
    /\ UNCHANGED <<ctxVars, logVars, now, op, ret, run>>

\* entering the body without waiting for the lock to be free
l_acquire_barging(t) ==
    /\ pc[t] = "acquire"
    /\ _lock' = t
    /\ pc' = [pc EXCEPT ![t] = "locked"]
    /\ UNCHANGED <<raw_file, audited_file, chain, ctxVars, local, now, op, ret, run>>

\* with self._lock: __enter__ of a threading.Lock, which waits while any
\* thread, the caller included, holds it
l_acquire(t) ==
    /\ pc[t] = "acquire"
    /\ _lock = "free"
    /\ _lock' = t
    /\ pc' = [pc EXCEPT ![t] = "locked"]
    /\ UNCHANGED <<raw_file, audited_file, chain, ctxVars, local, now, op, ret, run>>

\* the body under the lock.  A failed append is caught and logged inside
\* the with block; a rewrite of the raw file that fails in
\* cleanup_old_danmaku raises through it
l_body(t, write) ==
    LET c == local[t]
        cutoff_time == now - EffectiveDays(IF c.name = "cleanup_old_danmaku"
                                           THEN c.arg.days ELSE 0)
        r == CleanupFile(raw_file, cutoff_time)
        a == CleanupFile(audited_file, cutoff_time)
        audit_result == IF c.name = "update_audit_result" THEN c.arg.outcome ELSE c.arg
    IN  /\ pc[t] = "locked"
        /\ raw_file' =
              IF c.name = "add_raw_danmaku" THEN AppendLine(raw_file, AsRaw(c.danmaku), write)
              ELSE IF c.name = "cleanup_old_danmaku" /\ write = "ok" THEN r.lines
              ELSE raw_file
        /\ audited_file' =
              IF c.name \in {"add_audited_danmaku", "update_audit_result"}
              THEN AppendLine(audited_file, AsAudited(c.danmaku, audit_result), write)
              ELSE IF c.name = "cleanup_old_danmaku" /\ write = "ok" /\ ~r.raised THEN a.lines
              ELSE audited_file
        /\ local' = [local EXCEPT ![t].raised =
                        /\ c.name = "cleanup_old_danmaku"
                        /\ (write # "ok" \/ r.raised \/ a.raised)]
        /\ pc' = [pc EXCEPT ![t] = "exit"]
        /\ UNCHANGED <<_lock, chain, ctxVars, now, op, ret, run>>

\* a release written after the body, which an exception jumps over
l_release_unless_raised(t) ==
    /\ pc[t] = "exit"
    /\ _lock' = IF local[t].raised THEN _lock ELSE "free"
    /\ pc' = [pc EXCEPT ![t] = IF local[t].raised THEN "raised" ELSE "done"]
    /\ UNCHANGED <<raw_file, audited_file, chain, ctxVars, local, now, op, ret, run>>

\* __exit__ of the with block: the lock is released whether the body
\* returned or raised
l_release(t) ==
    /\ pc[t] = "exit"
    /\ _lock' = "free"
    /\ pc' = [pc EXCEPT ![t] = IF local[t].raised THEN "raised" ELSE "done"]
    /\ UNCHANGED <<raw_file, audited_file, chain, ctxVars, local, now, op, ret, run>>

l_step(t) ==
    \/ l_lookup(t)
    \/ l_read(t)
    \/ l_acquire(t)
    \/ \E w \in {"ok", "fail"} : l_body(t, w)
    \/ l_release(t)

NextLock ==
    \/ \E t \in Threads, c \in LockCalls : l_call(t, c)
    \/ \E t \in Threads : l_step(t)

SpecLock == Init /\ [][NextLock]_vars /\ \A t \in Threads : WF_vars(l_step(t))

\* C29: no call of the event log store blocks forever: under any
\* interleaving of concurrent add_raw, add_audited, update_audit, cleanup,
\* recent and by_id calls with fair scheduling every call eventually
\* completes; the non-reentrant lock is never requested by a thread that
\* already holds it, and it is released on every exit path, a failed write
\* or a failed rewrite included.
C29_NoCallBlocks ==
    /\ [](\A t \in Threads : pc[t] = "acquire" => _lock # t)
    /\ [](\A t \in Threads : pc[t] \in {"idle", "done", "raised"} => _lock # t)
    /\ \A t \in Threads : (pc[t] # "idle") ~> (pc[t] \in {"done", "raised"})

\* C29 is met: one thread has left cleanup_old_danmaku through a failed
\* rewrite, and the other holds the lock after it for its append
C29_Witness ==
    \E t, u \in Threads :
        /\ pc[t] = "raised" /\ local[t].name = "cleanup_old_danmaku"
        /\ pc[u] = "locked" /\ _lock = u
        /\ local[u].name = "add_audited_danmaku"


\* C30: cache freshness: load_context answers from the memory cache only
\* when an entry exists and its age is strictly less than cache_ttl; at age
\* >= cache_ttl it reads the durable document, returns its messages and
\* replaces the entry with a new timestamp.  Expiry alone never removes an
\* entry.
C30_CacheFreshness ==
    /\ [][\A s \in CtxSessions :
             load_context(s)
                 => LET cached == s \in DOMAIN memory_cache
                    IN  IF cached /\ now - memory_cache[s].timestamp < cache_ttl
                        THEN /\ ret' = memory_cache[s].data.messages
                             /\ memory_cache' = memory_cache
                        ELSE /\ IsDoc(sessions_dir[s])
                                   => /\ ret' = sessions_dir[s].messages
                                      /\ s \in DOMAIN memory_cache'
                                      /\ memory_cache'[s].data = sessions_dir[s]
                                      /\ memory_cache'[s].timestamp = now
                             /\ cached => s \in DOMAIN memory_cache']_vars
    /\ [][Tick => memory_cache' = memory_cache]_vars


(***************************************************************************)
(* SpecAppend: the two appending calls alone, with audit results that      *)
(* allow, reject, or carry no verdict.                                     *)
(***************************************************************************)
Appended == {Fresh(id, Naive(0)) : id \in Ids} \cup {AsAudited(Fresh("e1", Naive(0)), Spam)}

NextAppend ==
    \/ \E d \in Appended, w \in {"ok", "fail"} : add_raw_danmaku(d, w)
    \/ \E d \in Appended, o \in AuditOutcomes, w \in {"ok", "fail"} :
          add_audited_danmaku(d, o, w)

SpecAppend == Init /\ [][NextAppend]_vars

\* C31: append-only frame: a successful add_raw_danmaku appends exactly one
\* line to the raw log and leaves the audited log unchanged; a successful
\* add_audited_danmaku appends exactly one line to the audited log and
\* leaves the raw log unchanged; neither modifies, removes or reorders any
\* line already present in either log.
C31_AppendOnly ==
    /\ [][\A d \in Appended :
             add_raw_danmaku(d, "ok")
                 => /\ Len(raw_file') = Len(raw_file) + 1
                    /\ SubSeq(raw_file', 1, Len(raw_file)) = raw_file
                    /\ audited_file' = audited_file]_vars
    /\ [][\A d \in Appended, o \in AuditOutcomes :
             add_audited_danmaku(d, o, "ok")
                 => /\ Len(audited_file') = Len(audited_file) + 1
                    /\ SubSeq(audited_file', 1, Len(audited_file)) = audited_file
                    /\ raw_file' = raw_file]_vars

\* C31 is met: an audited line was appended behind a different one while
\* the raw log holds two different lines
C31_Witness ==
    /\ op.name = "add_audited_danmaku" /\ op.ok
    /\ Len(audited_file) = 2 /\ audited_file[1] # audited_file[2]
    /\ Len(raw_file) = 2 /\ raw_file[1] # raw_file[2]

\* C32: the line appended by add_audited_danmaku(record, outcome) has
\* audit_status approved exactly when outcome.allowed is true and rejected
\* otherwise (also when allowed is missing), audit_result equal to outcome,
\* and id, platform, content and timestamp (and the fields carried like
\* content) equal to those of the input record.
C32_AuditedLine ==
    [][\A d \in Appended, o \in AuditOutcomes :
          add_audited_danmaku(d, o, "ok")
              => LET line == audited_file'[Len(audited_file')]
                     allowed == "allowed" \in DOMAIN o /\ o.allowed
                 IN  /\ line.kind = "record"
                     /\ line.data.audit_status = (IF allowed THEN "approved" ELSE "rejected")
                     /\ line.data.audit_result = o
                     /\ line.data.id = d.id
                     /\ line.data.platform = d.platform
                     /\ line.data.content = d.content
                     /\ line.data.timestamp = d.timestamp]_vars

\* C32 is met: a record audited with an outcome that has no verdict was
\* written as rejected
C32_Witness ==
    /\ op.name = "add_audited_danmaku" /\ op.ok
    /\ audited_file # <<>>
    /\ audited_file[Len(audited_file)].data.audit_result = NoVerdict
    /\ audited_file[Len(audited_file)].data.audit_status = "rejected"
    /\ audited_file[Len(audited_file)].data.id = op.key


\* a record the filters of the claim let through: its platform is the one
\* asked for, and its timestamp, when it is a time, is not before since
Matches(line, platform, since) ==
    /\ line.kind = "record"
    /\ platform # NoPlatform => from_dict(line.data).platform = platform
    /\ since # NoSince
          => ~(/\ from_dict(line.data).timestamp.kind \in {"naive", "aware"}
               /\ from_dict(line.data).timestamp.t < since.t)

\* C33: filtered recent: get_recent_danmaku with a platform and/or since
\* filter returns only records whose platform equals the filter and whose
\* parseable timestamp is not before since (records with an unparseable
\* timestamp pass), and the result is the up-to-count newest such records
\* among the last 2 x count lines of the selected log.
C33_FilteredRecent ==
    (/\ op.name = "get_recent_danmaku"
     /\ op.arg.count >= 1
     /\ (op.arg.platform # NoPlatform \/ op.arg.since # NoSince))
        => LET count == Min(op.arg.count, HardMaxCount)
               window == LastN(ReadLog, 2 * count)
               matching == {i \in 1..Len(window) :
                               Matches(window[i], op.arg.platform, op.arg.since)}
               newest == {i \in matching : Cardinality({j \in matching : j >= i}) <= count}
           IN  /\ Len(ret) = Cardinality(newest)
               /\ \A i \in newest :
                     Occurrences(ret, from_dict(window[i].data))
                         = Cardinality({j \in newest : window[j] = window[i]})


(***************************************************************************)
(* SpecSweep: cleanup_old_danmaku step by step beside one other call.      *)
(* Under self._lock _cleanup_file reads a file, opens it with mode 'w',    *)
(* which empties it, and writes the kept lines; it does so for the raw     *)
(* file and then for the audited file.  The appending calls wait for the   *)
(* lock; get_recent_danmaku, get_danmaku_by_id and get_statistics take no  *)
(* lock and read the files as they find them.  The clock stands at MaxNow. *)
(***************************************************************************)
SweepCall(name, danmaku, arg) ==
    [name |-> name, danmaku |-> danmaku, arg |-> arg, raised |-> FALSE, ok |-> TRUE,
     ret |-> <<>>, swept |-> "none",
     before |-> [raw |-> <<>>, audited |-> <<>>],
     kept |-> [raw |-> <<>>, audited |-> <<>>]]

SweepReads == {"get_recent_danmaku", "get_danmaku_by_id", "get_statistics"}
SweepAppends == {"add_raw_danmaku", "add_audited_danmaku"}

SweepCalls ==
    {SweepCall("cleanup_old_danmaku", NoneValue, [days |-> 0]),
     SweepCall("add_raw_danmaku", Fresh("e2", Naive(MaxNow)), <<>>),
     SweepCall("add_audited_danmaku", Fresh("e2", Naive(MaxNow)), Spam),
     SweepCall("get_recent_danmaku", NoneValue, [count |-> DefaultCount]),
     SweepCall("get_danmaku_by_id", NoneValue, [id |-> "e1"]),
     SweepCall("get_statistics", NoneValue, <<>>)}

SweepRaw ==
    {<<>>,
     <<Line(to_dict(Fresh("e1", Naive(MaxNow))))>>,
     <<Line(to_dict(Fresh("e2", Naive(0)))), Line(to_dict(Fresh("e1", Naive(MaxNow))))>>}

SweepAudited ==
    {<<>>,
     <<Line(to_dict(AsAudited(Fresh("e2", Naive(0)), Spam))),
       Line(to_dict(AsAudited(Fresh("e1", Naive(MaxNow)), Allowed)))>>}

InitSweep ==
    /\ sessions_dir = [s \in Sessions |-> NoFile]
    /\ memory_cache = EmptyDict
    /\ cache_order = <<>>
    /\ first_created = [s \in Sessions |-> {}]
    /\ raw_file \in SweepRaw
    /\ audited_file \in SweepAudited
    /\ now = MaxNow
    /\ op = NoCall
    /\ ret = <<>>
    /\ chain = NoChain
    /\ _lock = "free"
    /\ run = NoRun
    /\ pc = [t \in Threads |-> "idle"]
    /\ local = [t \in Threads |-> NoLocal]

s_call(t, c) ==
    /\ pc[t] = "idle"
    /\ local' = [local EXCEPT ![t] = c]
    /\ pc' = [pc EXCEPT ![t] = IF c.name \in SweepReads THEN "read" ELSE "acquire"]
    /\ UNCHANGED <<ctxVars, logVars, now, op, ret, run>>

\* what a reading call answers on given files
Answer(c, rawLines, auditedLines) ==
    IF c.name = "get_recent_danmaku"
    THEN GetRecentDanmaku(rawLines, c.arg.count, NoPlatform, NoSince)
    ELSE IF c.name = "get_danmaku_by_id"
    THEN GetDanmakuById(rawLines, auditedLines, c.arg.id, TRUE)
    ELSE GetStatistics(rawLines, auditedLines)

\* the read of the raw file: f.readlines() of get_recent_danmaku (also
\* inside get_danmaku_by_id), or the line count of get_statistics, which
\* then goes on to the audited file
s_read(t) ==
    /\ pc[t] = "read"
    /\ local' = [local EXCEPT ![t].ret = Answer(local[t], raw_file, <<>>)]
    /\ pc' = [pc EXCEPT ![t] = IF local[t].name = "get_statistics"
                               THEN "read_audited" ELSE "done"]
    /\ UNCHANGED <<ctxVars, logVars, now, op, ret, run>>

\* get_statistics: the loop over the audited file
s_read_audited(t) ==
    /\ pc[t] = "read_audited"
    /\ LET stats == GetStatistics(<<>>, audited_file)
       IN  local' = [local EXCEPT ![t].ret =
                        [stats EXCEPT !.raw_count = local[t].ret.raw_count,
                                      !.pending_count = local[t].ret.raw_count],
                                  ![t].raised = stats.raised]
    /\ pc' = [pc EXCEPT ![t] = IF GetStatistics(<<>>, audited_file).raised
                               THEN "raised" ELSE "done"]
    /\ UNCHANGED <<ctxVars, logVars, now, op, ret, run>>

\* the append under the lock; a failure is caught and logged
s_append(t, write) ==
    LET c == local[t]
    IN  /\ pc[t] = "locked"
        /\ c.name \in SweepAppends
        /\ raw_file' = IF c.name = "add_raw_danmaku"
                       THEN AppendLine(raw_file, AsRaw(c.danmaku), write)
                       ELSE raw_file
        /\ audited_file' = IF c.name = "add_audited_danmaku"
                           THEN AppendLine(audited_file, AsAudited(c.danmaku, c.arg), write)
                           ELSE audited_file
        /\ local' = [local EXCEPT ![t].ok = (write = "ok")]
        /\ pc' = [pc EXCEPT ![t] = "exit"]
        /\ UNCHANGED <<_lock, chain, ctxVars, now, op, ret, run>>

\* _cleanup_file(raw_file): the reading loop, then open(file_path, 'w'),
\* which leaves the file empty until the lines are written
c_open_raw(t) ==
    LET r == CleanupFile(raw_file, now - EffectiveDays(local[t].arg.days))
    IN  /\ pc[t] = "locked"
        /\ local[t].name = "cleanup_old_danmaku"
        /\ IF r.raised
           THEN /\ local' = [local EXCEPT ![t].raised = TRUE]
                /\ pc' = [pc EXCEPT ![t] = "exit"]
                /\ UNCHANGED raw_file
           ELSE /\ local' = [local EXCEPT ![t].before.raw = raw_file,
                                          ![t].kept.raw = r.lines,
                                          ![t].swept = "raw"]
                /\ pc' = [pc EXCEPT ![t] = "rewrite_raw"]
                /\ raw_file' = <<>>
        /\ UNCHANGED <<audited_file, _lock, chain, ctxVars, now, op, ret, run>>

\* f.writelines(lines) and the close that flushes them
c_write_raw(t, write) ==
    /\ pc[t] = "rewrite_raw"
    /\ IF write = "ok"
       THEN /\ raw_file' = local[t].kept.raw
            /\ pc' = [pc EXCEPT ![t] = "locked_audited"]
            /\ UNCHANGED local
       ELSE /\ local' = [local EXCEPT ![t].raised = TRUE]
            /\ pc' = [pc EXCEPT ![t] = "exit"]
            /\ UNCHANGED raw_file
    /\ UNCHANGED <<audited_file, _lock, chain, ctxVars, now, op, ret, run>>

\* _cleanup_file(audited_file)
c_open_audited(t) ==
    LET a == CleanupFile(audited_file, now - EffectiveDays(local[t].arg.days))
    IN  /\ pc[t] = "locked_audited"
        /\ IF a.raised
           THEN /\ local' = [local EXCEPT ![t].raised = TRUE]
                /\ pc' = [pc EXCEPT ![t] = "exit"]
                /\ UNCHANGED audited_file
           ELSE /\ local' = [local EXCEPT ![t].before.audited = audited_file,
                                          ![t].kept.audited = a.lines,
                                          ![t].swept = "both"]
                /\ pc' = [pc EXCEPT ![t] = "rewrite_audited"]
                /\ audited_file' = <<>>
        /\ UNCHANGED <<raw_file, _lock, chain, ctxVars, now, op, ret, run>>

c_write_audited(t, write) ==
    /\ pc[t] = "rewrite_audited"
    /\ IF write = "ok"
       THEN /\ audited_file' = local[t].kept.audited
            /\ UNCHANGED local
       ELSE /\ local' = [local EXCEPT ![t].raised = TRUE]
            /\ UNCHANGED audited_file
    /\ pc' = [pc EXCEPT ![t] = "exit"]
    /\ UNCHANGED <<raw_file, _lock, chain, ctxVars, now, op, ret, run>>

NextSweep ==
    \/ \E t \in Threads, c \in SweepCalls : s_call(t, c)
    \/ \E t \in Threads : s_read(t)
    \/ \E t \in Threads : s_read_audited(t)
    \/ \E t \in Threads : l_acquire(t)
    \/ \E t \in Threads, w \in {"ok", "fail"} : s_append(t, w)
    \/ \E t \in Threads : c_open_raw(t)
    \/ \E t \in Threads, w \in {"ok", "fail"} : c_write_raw(t, w)
    \/ \E t \in Threads : c_open_audited(t)
    \/ \E t \in Threads, w \in {"ok", "fail"} : c_write_audited(t, w)
    \/ \E t \in Threads : l_release(t)

SpecSweep == InitSweep /\ [][NextSweep]_vars

\* the two files as the sweep of thread u found them, and as it leaves them
SweepBefore(u) ==
    [raw |-> IF local[u].swept = "none" THEN raw_file ELSE local[u].before.raw,
     audited |-> IF local[u].swept = "both" THEN local[u].before.audited
                 ELSE audited_file]

SweepAfter(u) ==
    LET cutoff_time == now - EffectiveDays(local[u].arg.days)
    IN  [raw |-> IF local[u].swept = "none"
                 THEN CleanupFile(raw_file, cutoff_time).lines ELSE local[u].kept.raw,
         audited |-> IF local[u].swept = "both" THEN local[u].kept.audited
                     ELSE CleanupFile(audited_file, cutoff_time).lines]

\* C34: reads are linearized with cleanup: a get_recent_danmaku,
\* get_danmaku_by_id or get_statistics call that runs concurrently with
\* cleanup_old_danmaku returns what it would return either on the log as it
\* was before the cleanup or on the log as it is after the cleanup; it
\* never observes a truncated or partly rewritten log.
C34_ReadsLinearized ==
    \A t, u \in Threads :
        (/\ pc[t] = "done" /\ local[t].name \in SweepReads
         /\ pc[u] # "idle" /\ local[u].name = "cleanup_old_danmaku"
         /\ ~local[u].raised)
            => local[t].ret \in
                  {Answer(local[t], SweepBefore(u).raw, SweepBefore(u).audited),
                   Answer(local[t], SweepAfter(u).raw, SweepAfter(u).audited)}


\* the line a completed appending call of thread t has written, and the
\* log it went to
AppendedLine(t) ==
    IF local[t].name = "add_raw_danmaku"
    THEN Line(to_dict(AsRaw(local[t].danmaku)))
    ELSE Line(to_dict(AsAudited(local[t].danmaku, local[t].arg)))

AppendedTo(t) == IF local[t].name = "add_raw_danmaku" THEN raw_file ELSE audited_file

\* C35: an append is never lost to a concurrent cleanup: when
\* add_raw_danmaku (or add_audited_danmaku) of a record whose timestamp is
\* inside the retention window runs concurrently with cleanup_old_danmaku,
\* the record is present in its log after both calls complete, in every
\* interleaving.
C35_AppendSurvivesCleanup ==
    \A t, u \in Threads :
        (/\ pc[t] = "done" /\ local[t].name \in SweepAppends /\ local[t].ok
         /\ pc[u] = "done" /\ local[u].name = "cleanup_old_danmaku")
            => AppendedLine(t) \in Range(AppendedTo(t))

\* C35 is met: the append came first, the sweep read the appended line,
\* dropped an expired one beside it, and the appended line is in the log
C35_Witness ==
    \E t, u \in Threads :
        /\ pc[t] = "done" /\ local[t].name = "add_raw_danmaku" /\ local[t].ok
        /\ pc[u] = "done" /\ local[u].name = "cleanup_old_danmaku"
        /\ AppendedLine(t) \in Range(local[u].before.raw)
        /\ Len(local[u].kept.raw) < Len(local[u].before.raw)
        /\ AppendedLine(t) \in Range(raw_file)


(***************************************************************************)
(* SpecCache: the memory cache under single-threaded calls on three        *)
(* sessions, more than the cache can hold.  Appends are made on one of     *)
(* them; the clock stands still, so an entry is replaced by a save or by a *)
(* load that follows its eviction.                                         *)
(***************************************************************************)
NextCache ==
    \/ \E s \in Sessions, w \in {"ok", "open"} :
          save_context(s, <<"user:hi">>, {}, <<>>, w)
    \/ \E s \in Sessions : load_context(s)
    \/ \E s \in CtxSessions, w \in {"ok", "open"} : append_message(s, "user:bye", w)
    \/ \E s \in Sessions : clear_context(s)

SpecCache == Init /\ [][NextCache]_vars

\* C36: cache structure invariant: after any single-threaded sequence of
\* save_context, load_context, append_message and clear_context calls over
\* any number of sessions the memory cache holds at most max_cache_size
\* entries and the recency list contains exactly the keys of the memory
\* cache, each exactly once.
C36_CacheStructure ==
    /\ Cardinality(DOMAIN memory_cache) <= max_cache_size
    /\ Range(cache_order) = DOMAIN memory_cache
    /\ Len(cache_order) = Cardinality(DOMAIN memory_cache)

\* C36 is met: an append on a third session has evicted another session,
\* whose document is still on disk, from the full cache
C36_Witness ==
    /\ op.name = "append_message" /\ op.ok
    /\ Cardinality(DOMAIN memory_cache) = max_cache_size
    /\ cache_order # <<>> /\ cache_order[Len(cache_order)] = op.key
    /\ \E s \in Sessions : IsDoc(sessions_dir[s]) /\ s \notin DOMAIN memory_cache


\* C37: append_message(session, message) changes only the message history:
\* the mono_context and the metadata stored in the session's durable
\* document are the same after the call as before it.
C37_AppendKeepsMono ==
    [][\A s \in CtxSessions, w \in WriteOutcomes :
          (append_message(s, "user:bye", w) /\ IsDoc(sessions_dir[s]) /\ op'.ok)
              => /\ IsDoc(sessions_dir'[s])
                 /\ sessions_dir'[s].mono_context = sessions_dir[s].mono_context
                 /\ sessions_dir'[s].metadata = sessions_dir[s].metadata]_vars

\* C38: clear_expired_mono(session), when it re-saves the document, leaves
\* the session's message sequence unchanged, whether or not the session is
\* currently held fresh in the memory cache.
C38_ClearExpiredKeepsMessages ==
    [][\A s \in CtxSessions, w \in WriteOutcomes :
          (/\ clear_expired_mono(s, w)
           /\ IsDoc(sessions_dir[s])
           /\ op'.arg.saved /\ op'.ok)
              => /\ IsDoc(sessions_dir'[s])
                 /\ sessions_dir'[s].messages = sessions_dir[s].messages]_vars


\* C39: get_recent_danmaku never returns more records than requested: for
\* every count >= 0 the result has at most min(count, 100) records, so
\* count = 0 on a non-empty log returns an empty list.
C39_AtMostCount ==
    (op.name = "get_recent_danmaku" /\ op.arg.count >= 0)
        => Len(ret) <= Min(op.arg.count, HardMaxCount)

\* a record whose timestamp is a time before the cutoff
Expired(line, cutoff_time) ==
    /\ line.kind = "record"
    /\ DictGet(line.data, "timestamp", BadTime).kind = "naive"
    /\ DictGet(line.data, "timestamp", BadTime).t < cutoff_time

\* C40: cleanup_old_danmaku on a raw or audited log that contains one
\* malformed line completes without raising and still removes the expired
\* parseable records from both logs.
C40_CleanupCorruptLine ==
    [][\A days \in DaysArgs \ {0} :
          (/\ cleanup_old_danmaku(days)
           /\ NumMalformed(raw_file) + NumMalformed(audited_file) = 1)
              => /\ op'.ok
                 /\ \A i \in 1..Len(raw_file') : ~Expired(raw_file'[i], now - days)
                 /\ \A i \in 1..Len(audited_file') :
                       ~Expired(audited_file'[i], now - days)]_vars

=============================================================================
